---- MODULE Spec2Model ----
(***************************************************************************)
(* Registration monitor (monitor.py): fetch -> text/link analysis ->       *)
(* state-gated alerting -> persistence, as a state machine over the two    *)
(* files status.json and alert.md and the control position inside main().  *)
(*                                                                         *)
(* Strings are sequences of Unicode code points, so that str.lower, the    *)
(* substring test `k in t`, sort_keys and urlparse are computed, not       *)
(* assumed.  Each literal carries the Python literal as a comment.         *)
(***************************************************************************)
EXTENDS Integers, Sequences, FiniteSets, TLC

\* ---------------------------------------------------------------- bounds
\* number of invocations of main() explored
MaxRuns == 3

\* ------------------------------------------------------ program constants
\* YEAR = "2026"
YEAR == <<50, 48, 50, 54>>

\* the year the monitor was configured for before YEAR: "2025"
PrevYear == <<50, 48, 50, 53>>

\* An Optional value: None, or Some(v) for the value v
None == <<>>

Some(v) == <<v>>

\* "mendoza"
MendozaId == <<109, 101, 110, 100, 111, 122, 97>>

\* "Marat\xf3n Internacional de Mendoza"
MendozaName ==
  <<77, 97, 114, 97, 116, 243, 110, 32, 73, 110, 116, 101, 114, 110, 97, 99, 105, 111, 110, 97, 108, 32, 100, 101, 32, 77, 101, 110, 100, 111, 122, 97>>

MendozaUrls ==
  <<
    \* https://maratondemendoza.com/
    <<104, 116, 116, 112, 115, 58, 47, 47, 109, 97, 114, 97, 116, 111, 110, 100, 101, 109, 101, 110, 100, 111, 122, 97, 46, 99, 111, 109, 47>>,
    \* https://maratondemendoza.com/2026/
    <<104, 116, 116, 112, 115, 58, 47, 47, 109, 97, 114, 97, 116, 111, 110, 100, 101, 109, 101, 110, 100, 111, 122, 97, 46, 99, 111, 109, 47, 50, 48, 50, 54, 47>>,
    \* https://maratondemendoza.com/2025/
    <<104, 116, 116, 112, 115, 58, 47, 47, 109, 97, 114, 97, 116, 111, 110, 100, 101, 109, 101, 110, 100, 111, 122, 97, 46, 99, 111, 109, 47, 50, 48, 50, 53, 47>>
  >>

MendozaPositive ==
  <<
    \* inscripci\xf3n
    <<105, 110, 115, 99, 114, 105, 112, 99, 105, 243, 110>>,
    \* inscripciones
    <<105, 110, 115, 99, 114, 105, 112, 99, 105, 111, 110, 101, 115>>,
    \* inscribite
    <<105, 110, 115, 99, 114, 105, 98, 105, 116, 101>>,
    \* registro
    <<114, 101, 103, 105, 115, 116, 114, 111>>,
    \* reg\xedstrese
    <<114, 101, 103, 237, 115, 116, 114, 101, 115, 101>>,
    \* register
    <<114, 101, 103, 105, 115, 116, 101, 114>>,
    \* registration
    <<114, 101, 103, 105, 115, 116, 114, 97, 116, 105, 111, 110>>,
    \* tickets
    <<116, 105, 99, 107, 101, 116, 115>>,
    \* venta
    <<118, 101, 110, 116, 97>>,
    \* comprar
    <<99, 111, 109, 112, 114, 97, 114>>
  >>

MendozaNegative ==
  <<
    \* cerradas
    <<99, 101, 114, 114, 97, 100, 97, 115>>,
    \* cerrada
    <<99, 101, 114, 114, 97, 100, 97>>,
    \* agotadas
    <<97, 103, 111, 116, 97, 100, 97, 115>>,
    \* sold out
    <<115, 111, 108, 100, 32, 111, 117, 116>>,
    \* closed
    <<99, 108, 111, 115, 101, 100>>,
    \* finaliz\xf3
    <<102, 105, 110, 97, 108, 105, 122, 243>>,
    \* fechadas
    <<102, 101, 99, 104, 97, 100, 97, 115>>,
    \* encerradas
    <<101, 110, 99, 101, 114, 114, 97, 100, 97, 115>>
  >>

MendozaLinkPatterns ==
  <<
    \* eventick\.com\.ar
    <<101, 118, 101, 110, 116, 105, 99, 107, 92, 46, 99, 111, 109, 92, 46, 97, 114>>,
    \* /inscripcion
    <<47, 105, 110, 115, 99, 114, 105, 112, 99, 105, 111, 110>>,
    \* /inscripciones
    <<47, 105, 110, 115, 99, 114, 105, 112, 99, 105, 111, 110, 101, 115>>,
    \* /register
    <<47, 114, 101, 103, 105, 115, 116, 101, 114>>,
    \* /registration
    <<47, 114, 101, 103, 105, 115, 116, 114, 97, 116, 105, 111, 110>>
  >>

\* "patagonia"
PatagoniaId == <<112, 97, 116, 97, 103, 111, 110, 105, 97>>

\* "Patagonian International Marathon"
PatagoniaName ==
  <<80, 97, 116, 97, 103, 111, 110, 105, 97, 110, 32, 73, 110, 116, 101, 114, 110, 97, 116, 105, 111, 110, 97, 108, 32, 77, 97, 114, 97, 116, 104, 111, 110>>

PatagoniaUrls ==
  <<
    \* https://www.patagonianinternationalmarathon.com/en/registration
    <<104, 116, 116, 112, 115, 58, 47, 47, 119, 119, 119, 46, 112, 97, 116, 97, 103, 111, 110, 105, 97, 110, 105, 110, 116, 101, 114, 110, 97, 116, 105, 111, 110, 97, 108, 109, 97, 114, 97, 116, 104, 111, 110, 46, 99, 111, 109, 47, 101, 110, 47, 114, 101, 103, 105, 115, 116, 114, 97, 116, 105, 111, 110>>,
    \* https://www.patagonianinternationalmarathon.com/en/calendar
    <<104, 116, 116, 112, 115, 58, 47, 47, 119, 119, 119, 46, 112, 97, 116, 97, 103, 111, 110, 105, 97, 110, 105, 110, 116, 101, 114, 110, 97, 116, 105, 111, 110, 97, 108, 109, 97, 114, 97, 116, 104, 111, 110, 46, 99, 111, 109, 47, 101, 110, 47, 99, 97, 108, 101, 110, 100, 97, 114>>,
    \* https://www.patagonianinternationalmarathon.com/en/
    <<104, 116, 116, 112, 115, 58, 47, 47, 119, 119, 119, 46, 112, 97, 116, 97, 103, 111, 110, 105, 97, 110, 105, 110, 116, 101, 114, 110, 97, 116, 105, 111, 110, 97, 108, 109, 97, 114, 97, 116, 104, 111, 110, 46, 99, 111, 109, 47, 101, 110, 47>>
  >>

PatagoniaPositive ==
  <<
    \* registration
    <<114, 101, 103, 105, 115, 116, 114, 97, 116, 105, 111, 110>>,
    \* register
    <<114, 101, 103, 105, 115, 116, 101, 114>>,
    \* inscripci\xf3n
    <<105, 110, 115, 99, 114, 105, 112, 99, 105, 243, 110>>,
    \* inscripciones
    <<105, 110, 115, 99, 114, 105, 112, 99, 105, 111, 110, 101, 115>>,
    \* inscreva-se
    <<105, 110, 115, 99, 114, 101, 118, 97, 45, 115, 101>>,
    \* super pre-sale
    <<115, 117, 112, 101, 114, 32, 112, 114, 101, 45, 115, 97, 108, 101>>,
    \* pre-sale
    <<112, 114, 101, 45, 115, 97, 108, 101>>,
    \* preventa
    <<112, 114, 101, 118, 101, 110, 116, 97>>,
    \* venta
    <<118, 101, 110, 116, 97>>,
    \* tickets
    <<116, 105, 99, 107, 101, 116, 115>>
  >>

PatagoniaNegative ==
  <<
    \* has closed
    <<104, 97, 115, 32, 99, 108, 111, 115, 101, 100>>,
    \* closed
    <<99, 108, 111, 115, 101, 100>>,
    \* cerradas
    <<99, 101, 114, 114, 97, 100, 97, 115>>,
    \* cerrada
    <<99, 101, 114, 114, 97, 100, 97>>,
    \* fechadas
    <<102, 101, 99, 104, 97, 100, 97, 115>>,
    \* sold out
    <<115, 111, 108, 100, 32, 111, 117, 116>>
  >>

PatagoniaLinkPatterns ==
  <<
    \* /en/registration
    <<47, 101, 110, 47, 114, 101, 103, 105, 115, 116, 114, 97, 116, 105, 111, 110>>,
    \* /registration
    <<47, 114, 101, 103, 105, 115, 116, 114, 97, 116, 105, 111, 110>>,
    \* wetravel\.
    <<119, 101, 116, 114, 97, 118, 101, 108, 92, 46>>,
    \* /register
    <<47, 114, 101, 103, 105, 115, 116, 101, 114>>
  >>
\* the empty result of analyze_target: Python None where a dict is expected
NoResult == [isNone |-> TRUE]

\* class Target (dataclass), one record per field
Target(id, name, urls, positive_keywords, negative_keywords, require_year, must_have_link_patterns) ==
  [id |-> id, name |-> name, urls |-> urls,
   positive_keywords |-> positive_keywords,
   negative_keywords |-> negative_keywords,
   require_year |-> require_year,
   must_have_link_patterns |-> must_have_link_patterns]

\* TARGETS: the registry, in list order; require_year keeps its default True
TARGETS ==
  << Target(MendozaId, MendozaName, MendozaUrls, MendozaPositive,
            MendozaNegative, TRUE, Some(MendozaLinkPatterns)),
     Target(PatagoniaId, PatagoniaName, PatagoniaUrls, PatagoniaPositive,
            PatagoniaNegative, TRUE, Some(PatagoniaLinkPatterns)) >>

TargetIds == {TARGETS[i].id : i \in 1..Len(TARGETS)}

\* ------------------------------------------------------- string library
Range(s) == {s[i] : i \in 1..Len(s)}

\* str.lower on one code point (ASCII and Latin-1 capitals)
lower_char(c) ==
  IF (c >= 65 /\ c <= 90) \/ (c >= 192 /\ c <= 222 /\ c # 215)
  THEN c + 32 ELSE c

\* str.lower
lower(s) == [i \in 1..Len(s) |-> lower_char(s[i])]

\* the Python substring test `k in t`
Contains(k, t) ==
  \E i \in 0..(Len(t) - Len(k)) : SubSeq(t, i + 1, i + Len(k)) = k

\* any(k in t for k in keywords)
any_keyword(keywords, t) ==
  \E i \in 1..Len(keywords) : Contains(keywords[i], t)

\* truthiness of an Optional[List] or Optional[str]: None, [] and "" are falsy
Truthy(x) == x # None /\ x[1] # <<>>

\* str.strip(): drop leading and trailing white space (space, tab, LF, CR)
IsSpace(c) == c \in {32, 9, 10, 13}

RECURSIVE lstrip(_)
lstrip(s) ==
  IF s # <<>> /\ IsSpace(Head(s)) THEN lstrip(Tail(s)) ELSE s

RECURSIVE rstrip(_)
rstrip(s) ==
  IF s # <<>> /\ IsSpace(s[Len(s)]) THEN rstrip(SubSeq(s, 1, Len(s) - 1)) ELSE s

strip(s) == rstrip(lstrip(s))

\* the literal a pattern of the registry matches: every pattern is a literal
\* whose only regex syntax is the escape \c (code point 92) for the char c
RECURSIVE re_compile(_)
re_compile(pat) ==
  IF pat = <<>> THEN <<>>
  ELSE IF Head(pat) = 92 /\ Len(pat) >= 2
       THEN <<pat[2]>> \o re_compile(SubSeq(pat, 3, Len(pat)))
       ELSE <<Head(pat)>> \o re_compile(Tail(pat))

\* re.compile(pat, re.I).search(h)
rx_search(pat, h) == Contains(lower(re_compile(pat)), lower(h))

\* ------------------------------------------------------------- documents
\* A page body (r.text) is the sequence of its nodes: text nodes and anchor
\* elements; the empty sequence is the empty body.  An anchor without the
\* href attribute has href = None.
TextNode(s) == [tag |-> "text", href |-> None, text |-> s]

Anchor(href, s) == [tag |-> "a", href |-> href, text |-> s]

\* BeautifulSoup(html, "html.parser"): the node list of the page
BeautifulSoup(html) == html

\* soup.get_text(separator=" ", strip=True): the stripped, non-empty
\* strings of the document joined by one space
RECURSIVE join_strings(_)
join_strings(strs) ==
  IF strs = <<>> THEN <<>>
  ELSE IF Len(strs) = 1 THEN strs[1]
  ELSE strs[1] \o <<32>> \o join_strings(Tail(strs))

get_text(soup) ==
  LET stripped == [i \in 1..Len(soup) |-> strip(soup[i].text)]
      nonempty(s) == s # <<>>
  IN  join_strings(SelectSeq(stripped, nonempty))

\* [a.get("href") for a in soup.find_all("a", href=True)]
find_hrefs(soup) ==
  LET is_a(n) == n.tag = "a" /\ n.href # None
      as == SelectSeq(soup, is_a)
  IN  [i \in 1..Len(as) |-> as[i].href[1]]

\* ------------------------------------------------------ Content Analyzer
\* text_has_open_signals without the negative-keyword test of lines 156-157
text_has_open_signals_no_veto(text, target, year) ==
  LET t == lower(text) IN
  IF target.require_year /\ ~Contains(year, t) THEN FALSE
  ELSE IF ~any_keyword(target.positive_keywords, t) THEN FALSE
  ELSE TRUE

\* text_has_open_signals without the year test of lines 152-153
text_has_open_signals_no_year(text, target, year) ==
  LET t == lower(text) IN
  IF ~any_keyword(target.positive_keywords, t) THEN FALSE
  ELSE IF any_keyword(target.negative_keywords, t) THEN FALSE
  ELSE TRUE

\* def text_has_open_signals(text, target, year)
text_has_open_signals(text, target, year) ==
  LET t == lower(text) IN
  IF target.require_year /\ ~Contains(year, t) THEN FALSE
  ELSE IF ~any_keyword(target.positive_keywords, t) THEN FALSE
  ELSE IF any_keyword(target.negative_keywords, t) THEN FALSE
  ELSE TRUE

\* def links_have_patterns(soup, patterns)
links_have_patterns(soup, patterns) ==
  LET hrefs == find_hrefs(soup) IN
  \E p \in 1..Len(patterns) :
    \E j \in 1..Len(hrefs) :
      hrefs[j] # <<>> /\ rx_search(patterns[p], hrefs[j])

\* --------------------------------------------------------- Page Fetcher
\* What requests.get does for one request: a response with a status code
\* and a body, a requests.RequestException (connection error, timeout), or
\* any other exception.
Response(status_code, text) ==
  [kind |-> "response", status_code |-> status_code, text |-> text]

RequestException == [kind |-> "RequestException", status_code |-> 0, text |-> <<>>]

OtherException == [kind |-> "Exception", status_code |-> 0, text |-> <<>>]

\* fetch lets through whatever `except requests.RequestException` does not catch
fetch_raises(r) == r.kind = "Exception"

\* fetch without the status test of line 143
fetch_any_status(r) ==
  IF r.kind = "response" /\ r.text # <<>>
  THEN Some(r.text)
  ELSE None

\* def fetch(url), given what the request for url produced
fetch(r) ==
  IF r.kind = "response" /\ r.status_code = 200 /\ r.text # <<>>
  THEN Some(r.text)
  ELSE None

\* analyze_url without the must_have_link_patterns check of lines 178-182
analyze_url_no_link_check(target, year, r) ==
  IF fetch_raises(r) THEN "raise"
  ELSE LET html == fetch(r) IN
    IF ~Truthy(html) THEN "continue"
    ELSE IF text_has_open_signals(get_text(BeautifulSoup(html[1])), target, year)
         THEN "return"
         ELSE "continue"

\* one pass of the `for url in target.urls` body of analyze_target, given
\* what the request produced: "raise" (the exception leaves analyze_target),
\* "continue" (next URL) or "return" (this URL is the result)
analyze_url(target, year, r) ==
  IF fetch_raises(r) THEN "raise"
  ELSE LET html == fetch(r) IN
    IF ~Truthy(html) THEN "continue"
    ELSE LET soup == BeautifulSoup(html[1])
             text == get_text(soup)
         IN  IF text_has_open_signals(text, target, year)
             THEN IF Truthy(target.must_have_link_patterns)
                     /\ ~links_have_patterns(soup, target.must_have_link_patterns[1])
                  THEN "continue"
                  ELSE "return"
             ELSE "continue"

\* ---------------------------------------------------------- State Store
\* a file of the working directory: absent, present with content that is
\* not a JSON document (empty or cut short), or a JSON object given as its
\* members in document order
AbsentFile == [kind |-> "absent", doc |-> <<>>]

UnparsableFile == [kind |-> "unparsable", doc |-> <<>>]

JsonFile(doc) == [kind |-> "json", doc |-> doc]

\* {"notified_years": years}
Entry(years) == [notified_years |-> years]

\* string order of Python (by code point), used by sort_keys
RECURSIVE str_less(_, _)
str_less(a, b) ==
  IF b = <<>> THEN FALSE
  ELSE IF a = <<>> THEN TRUE
  ELSE IF Head(a) # Head(b) THEN Head(a) < Head(b)
  ELSE str_less(Tail(a), Tail(b))

RECURSIVE sorted(_)
sorted(keys) ==
  IF keys = {} THEN <<>>
  ELSE LET m == CHOOSE k \in keys : \A o \in keys \ {k} : str_less(k, o)
       IN  <<m>> \o sorted(keys \ {m})

\* json.dump(state, f, sort_keys=True): the members in key order
json_dump(st) ==
  LET ks == sorted(DOMAIN st)
  IN  [i \in 1..Len(ks) |-> [key |-> ks[i], value |-> st[ks[i]]]]

\* json.load(f) of a JSON object: a dict; of a repeated key the last wins
json_load(doc) ==
  [k \in {doc[i].key : i \in 1..Len(doc)} |->
     LET last == CHOOSE i \in 1..Len(doc) :
                   doc[i].key = k /\ \A j \in (i + 1)..Len(doc) : doc[j].key # k
     IN  doc[last].value]

\* {t.id: {"notified_years": []} for t in TARGETS}
initial_state == [id \in TargetIds |-> Entry(<<>>)]

\* load_state without the `except Exception: pass` of lines 129-130
load_state_propagates(file) ==
  IF file.kind # "absent"
  THEN IF file.kind = "json"
       THEN [raised |-> FALSE, value |-> json_load(file.doc)]
       ELSE [raised |-> TRUE, value |-> <<>>]
  ELSE [raised |-> FALSE, value |-> initial_state]

\* def load_state(): raised tells whether an exception leaves the function
load_state(file) ==
  IF file.kind # "absent"
  THEN IF file.kind = "json"
       THEN [raised |-> FALSE, value |-> json_load(file.doc)]
       ELSE [raised |-> FALSE, value |-> initial_state]
  ELSE [raised |-> FALSE, value |-> initial_state]

\* open(STATE_FILE, "w"): the file exists and is empty from here on
open_w(file) == UnparsableFile

\* def save_state(state), once json.dump has run and the file is closed
save_state(st) == JsonFile(json_dump(st))

\* main without the test of line 192
already_notified_never(st, target) == FALSE

\* the test of line 192 looking at the first recorded year only
already_notified_first_only(st, target) ==
  /\ st[target.id].notified_years # <<>>
  /\ st[target.id].notified_years[1] = YEAR

\* YEAR in state[target.id]["notified_years"]
already_notified(st, target) ==
  YEAR \in Range(st[target.id].notified_years)

\* line 197 appending another year than YEAR
append_year_prev(st, target) ==
  [st EXCEPT ![target.id] =
     [@ EXCEPT !.notified_years = Append(@, PrevYear)]]

\* state[target.id]["notified_years"].append(YEAR)
append_year(st, target) ==
  [st EXCEPT ![target.id] =
     [@ EXCEPT !.notified_years = Append(@, YEAR)]]

\* ------------------------------------------------------------- urlparse
\* index of the first element of s at or after i that is in cs, else Len(s)+1
RECURSIVE find_first(_, _, _)
find_first(s, cs, i) ==
  IF i > Len(s) THEN Len(s) + 1
  ELSE IF s[i] \in cs THEN i
  ELSE find_first(s, cs, i + 1)

\* urlparse(url).netloc: what stands between "scheme://" and the first of
\* "/", "?" and "#"
netloc(url) ==
  LET colon == find_first(url, {58}, 1)
      rest  == IF colon <= Len(url) /\ colon > 1
               THEN SubSeq(url, colon + 1, Len(url)) ELSE url
  IN  IF Len(rest) >= 2 /\ rest[1] = 47 /\ rest[2] = 47
      THEN SubSeq(rest, 3, find_first(rest, {47, 63, 35}, 3) - 1)
      ELSE <<>>

\* ------------------------------------------------------ Alert Composer
\* the literal parts of the f-strings of main()
\* "# Inscri\xe7\xf5es abertas "
LitTitle ==
  <<35, 32, 73, 110, 115, 99, 114, 105, 231, 245, 101, 115, 32, 97, 98, 101, 114, 116, 97, 115, 32>>

\* "## "
LitSection ==
  <<35, 35, 32>>

\* " - detectado em "
LitDetected ==
  <<32, 45, 32, 100, 101, 116, 101, 99, 116, 97, 100, 111, 32, 101, 109, 32>>

\* "- Ano: **"
LitYear ==
  <<45, 32, 65, 110, 111, 58, 32, 42, 42>>

\* "**"
LitBold ==
  <<42, 42>>

\* "- P\xe1gina analisada: `"
LitPage ==
  <<45, 32, 80, 225, 103, 105, 110, 97, 32, 97, 110, 97, 108, 105, 115, 97, 100, 97, 58, 32, 96>>

\* "`"
LitTick ==
  <<96>>

\* "- Crit\xe9rios: termos de abertura + "
LitCriteria ==
  <<45, 32, 67, 114, 105, 116, 233, 114, 105, 111, 115, 58, 32, 116, 101, 114, 109, 111, 115, 32, 100, 101, 32, 97, 98, 101, 114, 116, 117, 114, 97, 32, 43, 32>>

\* " e link de inscri\xe7\xe3o presente"
LitCriteriaEnd ==
  <<32, 101, 32, 108, 105, 110, 107, 32, 100, 101, 32, 105, 110, 115, 99, 114, 105, 231, 227, 111, 32, 112, 114, 101, 115, 101, 110, 116, 101>>

\* "\n".join(lines)
RECURSIVE join_lines(_)
join_lines(lines) ==
  IF lines = <<>> THEN <<>>
  ELSE IF Len(lines) = 1 THEN lines[1]
  ELSE lines[1] \o <<10>> \o join_lines(Tail(lines))

\* the six lines main() adds for one (target, result) of the batch
section_lines(target, result) ==
  LET host == netloc(result.url) IN
  << LitSection \o target.name \o LitDetected \o result.url,
     <<>>,
     LitYear \o YEAR \o LitBold,
     LitPage \o host \o LitTick,
     LitCriteria \o YEAR \o LitCriteriaEnd,
     <<>> >>

RECURSIVE all_section_lines(_)
all_section_lines(alerts) ==
  IF alerts = <<>> THEN <<>>
  ELSE section_lines(alerts[1][1], alerts[1][2]) \o all_section_lines(Tail(alerts))

\* the text of main() when the loop of lines 203-212 stops after one entry
alert_document_first_only(alerts) ==
  join_lines(<< LitTitle \o YEAR \o <<10>> >> \o section_lines(alerts[1][1], alerts[1][2]))

\* the text main() writes to ALERT_FILE
alert_document(alerts) ==
  join_lines(<< LitTitle \o YEAR \o <<10>> >> \o all_section_lines(alerts))

\* the alert file: absent, or present with its text
NoAlertFile == [exists |-> FALSE, text |-> <<>>]

AlertFileWith(text) == [exists |-> TRUE, text |-> text]

\* ------------------------------------------------ the pages of the web
\* fragments of page text and of anchor hrefs the monitored sites serve
\* "Inscripciones 2026"
TxtOpen == <<73, 110, 115, 99, 114, 105, 112, 99, 105, 111, 110, 101, 115, 32, 50, 48, 50, 54>>

\* "Inscripciones abiertas"
TxtOpenNoYear == <<73, 110, 115, 99, 114, 105, 112, 99, 105, 111, 110, 101, 115, 32, 97, 98, 105, 101, 114, 116, 97, 115>>

\* " CERRADAS "
TxtClosed == <<32, 67, 69, 82, 82, 65, 68, 65, 83, 32>>

\* "Register"
TxtRegister == <<82, 101, 103, 105, 115, 116, 101, 114>>

\* "/Registration?ev=1"
HrefRegistration == <<47, 82, 101, 103, 105, 115, 116, 114, 97, 116, 105, 111, 110, 63, 101, 118, 61, 49>>

\* "/contacto"
HrefContact == <<47, 99, 111, 110, 116, 97, 99, 116, 111>>

\* year and positive keyword (capitalised), a registration link
PageOpen == << TextNode(TxtOpen), Anchor(Some(HrefRegistration), TxtRegister) >>

\* the same page announcing that registration is closed
PageClosed == << TextNode(TxtOpen), TextNode(TxtClosed), Anchor(Some(HrefRegistration), TxtRegister) >>

\* year and positive keyword, but no anchor whose href matches a pattern
PageNoLink ==
  << TextNode(TxtOpen), Anchor(Some(HrefContact), TxtRegister),
     Anchor(None, TxtRegister), Anchor(Some(<<>>), TxtRegister) >>

\* positive keyword and registration link, no year
PageNoYear == << TextNode(TxtOpenNoYear), Anchor(Some(HrefRegistration), TxtRegister) >>

\* what one GET can produce
Responses ==
  { RequestException, OtherException,
    Response(404, PageOpen), Response(200, <<>>),
    Response(200, PageOpen), Response(200, PageClosed),
    Response(200, PageNoLink), Response(200, PageNoYear) }

\* int(time.time()) at the moment of a detection
Timestamps == {1762214400}

\* "berlin": a target of another configuration of the registry
OtherId == <<98, 101, 114, 108, 105, 110>>

\* status.json as an earlier invocation, possibly of another configuration
\* of the registry (other YEAR, a target more or less), can have left it
InitialFiles ==
  { AbsentFile,
    save_state(initial_state),
    save_state([initial_state EXCEPT ![MendozaId] = Entry(<<PrevYear>>)]),
    save_state([id \in {MendozaId} |-> Entry(<<>>)]),
    save_state([id \in TargetIds \cup {OtherId} |-> Entry(<<>>)]) }

\* ----------------------------------------------------------------- state
VARIABLES
  stateFile,    \* STATE_FILE (status.json) on disk
  alertFile,    \* ALERT_FILE (alert.md) on disk
  pc,           \* position of the process: "idle" when main() is not running
  state,        \* main: state
  alerts,       \* main: alerts, a list of (target, result)
  ti,           \* main: index in TARGETS of the loop `for target in TARGETS`
  target,       \* main: target; analyze_target: target
  ui,           \* analyze_target: index in target.urls of the loop
  result,       \* main: result
  runs,         \* number of invocations of main() so far
  exit,         \* how the last invocation ended
  killedAt,     \* history: pc at which the last invocation was killed
  loadedFrom,   \* history: the state file load_state read in this invocation
  loaded,       \* history: the value load_state returned in this invocation
  savedOver,    \* history: the state file save_state opened in this invocation
  fetched,      \* history: (target id, URL index) of each fetch of this invocation
  trace,        \* history: (url, response) of each fetch of the analyze_target call under way
  recorded,     \* history: target ids that had YEAR in a completed state file
  everAlerted,  \* history: target ids named in an alert document written so far
  stateOps,     \* history: the calls of load_state and save_state of this invocation
  text,         \* text_has_open_signals: text
  open_signals  \* text_has_open_signals: the value returned, None before the call

vars == << stateFile, alertFile, pc, state, alerts, ti, target, ui, result,
           runs, exit, killedAt, loadedFrom, loaded, savedOver, fetched,
           trace, recorded, everAlerted, stateOps, text, open_signals >>

\* the argument and the result of a call of text_has_open_signals by itself
textvars == << text, open_signals >>

files == << stateFile, alertFile >>

history == << killedAt, loadedFrom, loaded, savedOver, fetched, trace, recorded, everAlerted >>

Init ==
  /\ stateFile \in InitialFiles
  /\ alertFile = NoAlertFile
  /\ pc = "idle"
  /\ state = initial_state
  /\ alerts = <<>>
  /\ ti = 1
  /\ target = TARGETS[1]
  /\ ui = 1
  /\ result = NoResult
  /\ runs = 0
  /\ exit = "none"
  /\ killedAt = "none"
  /\ loadedFrom = AbsentFile
  /\ loaded = initial_state
  /\ savedOver = AbsentFile
  /\ fetched = <<>>
  /\ trace = <<>>
  /\ recorded = {}
  /\ everAlerted = {}
  /\ stateOps = <<>>
  /\ text = <<>>
  /\ open_signals = None

\* ------------------------------------------------------------------ main
\* main(): state = load_state(); alerts = []
MainStart ==
  /\ pc = "idle"
  /\ runs < MaxRuns
  /\ runs' = runs + 1
  /\ LET r == load_state(stateFile) IN
       /\ loadedFrom' = stateFile
       /\ loaded' = r.value
       /\ state' = r.value
       /\ IF r.raised
          THEN pc' = "idle" /\ exit' = "LoadError"
          ELSE pc' = "for" /\ exit' = "none"
  /\ alerts' = <<>>
  /\ ti' = 1
  /\ result' = NoResult
  /\ killedAt' = "none"
  /\ fetched' = <<>>
  /\ trace' = <<>>
  /\ UNCHANGED << files, target, ui, savedOver, recorded, everAlerted >>
  /\ stateOps' = <<"load">>
  /\ UNCHANGED textvars

\* for target in TARGETS: state[target.id] raises KeyError, which ends main()
MainKeyError ==
  /\ pc = "for"
  /\ ti <= Len(TARGETS)
  /\ TARGETS[ti].id \notin DOMAIN state
  /\ target' = TARGETS[ti]
  /\ pc' = "idle"
  /\ exit' = "KeyError"
  /\ UNCHANGED << files, state, alerts, ti, ui, result, runs, history >>
  /\ UNCHANGED << stateOps, textvars >>

\* if YEAR in state[target.id]["notified_years"]: continue
MainSkip ==
  /\ pc = "for"
  /\ ti <= Len(TARGETS)
  /\ TARGETS[ti].id \in DOMAIN state
  /\ already_notified(state, TARGETS[ti])
  /\ target' = TARGETS[ti]
  /\ ti' = ti + 1
  /\ UNCHANGED << files, pc, state, alerts, ui, result, runs, exit, history >>
  /\ UNCHANGED << stateOps, textvars >>

\* result = analyze_target(target, YEAR): enter the function
MainAnalyze ==
  /\ pc = "for"
  /\ ti <= Len(TARGETS)
  /\ TARGETS[ti].id \in DOMAIN state
  /\ ~already_notified(state, TARGETS[ti])
  /\ target' = TARGETS[ti]
  /\ ui' = 1
  /\ trace' = <<>>
  /\ pc' = "analyze"
  /\ UNCHANGED << files, state, alerts, ti, result, runs, exit, killedAt,
                  loadedFrom, loaded, savedOver, fetched, recorded, everAlerted >>
  /\ UNCHANGED << stateOps, textvars >>

\* analyze_target retrying a URL whose request failed instead of moving on
AnalyzeUrl_retries ==
  /\ pc = "analyze"
  /\ ui <= Len(target.urls)
  /\ \E r \in Responses, ts \in Timestamps :
       LET url == target.urls[ui]
           step == analyze_url(target, YEAR, r)
       IN  /\ fetched' = Append(fetched, <<target.id, ui>>)
           /\ trace' = Append(trace, [url |-> url, response |-> r])
           /\ IF step = "raise"
              THEN pc' = "idle" /\ exit' = "Exception"
                   /\ UNCHANGED << ui, result >>
              ELSE IF step = "return"
              THEN pc' = "record" /\ result' = [url |-> url, ts |-> ts]
                   /\ UNCHANGED << ui, exit >>
              ELSE IF r = RequestException
              THEN UNCHANGED << ui, pc, result, exit >>
              ELSE ui' = ui + 1 /\ UNCHANGED << pc, result, exit >>
  /\ UNCHANGED << files, state, alerts, ti, target, runs, killedAt,
                  loadedFrom, loaded, savedOver, recorded, everAlerted >>
  /\ UNCHANGED << stateOps, textvars >>

\* analyze_target: one pass of `for url in target.urls`
AnalyzeUrl ==
  /\ pc = "analyze"
  /\ ui <= Len(target.urls)
  /\ \E r \in Responses, ts \in Timestamps :
       LET url == target.urls[ui]
           step == analyze_url(target, YEAR, r)
       IN  /\ fetched' = Append(fetched, <<target.id, ui>>)
           /\ trace' = Append(trace, [url |-> url, response |-> r])
           /\ IF step = "raise"
              THEN pc' = "idle" /\ exit' = "Exception"
                   /\ UNCHANGED << ui, result >>
              ELSE IF step = "return"
              THEN pc' = "record" /\ result' = [url |-> url, ts |-> ts]
                   /\ UNCHANGED << ui, exit >>
              ELSE ui' = ui + 1 /\ UNCHANGED << pc, result, exit >>
  /\ UNCHANGED << files, state, alerts, ti, target, runs, killedAt,
                  loadedFrom, loaded, savedOver, recorded, everAlerted >>
  /\ UNCHANGED << stateOps, textvars >>

\* analyze_target: the loop is over, return None
AnalyzeNone ==
  /\ pc = "analyze"
  /\ ui > Len(target.urls)
  /\ result' = NoResult
  /\ pc' = "record"
  /\ UNCHANGED << files, state, alerts, ti, target, ui, runs, exit, history >>
  /\ UNCHANGED << stateOps, textvars >>

\* lines 195-197 followed by a save_state(state) inside the loop
MainRecord_saves ==
  /\ pc = "record"
  /\ IF result # NoResult
     THEN /\ alerts' = Append(alerts, <<target, result>>)
          /\ state' = append_year(state, target)
          /\ stateFile' = save_state(state')
          /\ stateOps' = Append(stateOps, "save")
     ELSE UNCHANGED << alerts, state, stateFile, stateOps >>
  /\ ti' = ti + 1
  /\ trace' = <<>>
  /\ pc' = "for"
  /\ UNCHANGED << alertFile, target, ui, result, runs, exit, killedAt, loadedFrom,
                  loaded, savedOver, fetched, recorded, everAlerted, textvars >>

\* if result: alerts.append((target, result)); notified_years.append(YEAR)
MainRecord ==
  /\ pc = "record"
  /\ IF result # NoResult
     THEN /\ alerts' = Append(alerts, <<target, result>>)
          /\ state' = append_year(state, target)
     ELSE UNCHANGED << alerts, state >>
  /\ ti' = ti + 1
  /\ trace' = <<>>
  /\ pc' = "for"
  /\ UNCHANGED << files, target, ui, result, runs, exit, killedAt, loadedFrom,
                  loaded, savedOver, fetched, recorded, everAlerted >>
  /\ UNCHANGED << stateOps, textvars >>

\* save_state(state): open(STATE_FILE, "w")
SaveOpen ==
  /\ pc = "for"
  /\ ti > Len(TARGETS)
  /\ savedOver' = stateFile
  /\ stateFile' = open_w(stateFile)
  /\ pc' = "dump"
  /\ UNCHANGED << alertFile, state, alerts, ti, target, ui, result, runs, exit,
                  killedAt, loadedFrom, loaded, fetched, trace, recorded, everAlerted >>
  /\ stateOps' = Append(stateOps, "save")
  /\ UNCHANGED textvars

\* save_state(state): json.dump and close
SaveDump ==
  /\ pc = "dump"
  /\ stateFile' = save_state(state)
  /\ recorded' = recorded \cup {id \in DOMAIN state : YEAR \in Range(state[id].notified_years)}
  /\ pc' = "compose"
  /\ UNCHANGED << alertFile, state, alerts, ti, target, ui, result, runs, exit,
                  killedAt, loadedFrom, loaded, savedOver, fetched, trace, everAlerted >>
  /\ UNCHANGED << stateOps, textvars >>

\* if alerts: ... else: print("[INFO] Nada aberto ainda.")
MainNoAlerts ==
  /\ pc = "compose"
  /\ alerts = <<>>
  /\ pc' = "idle"
  /\ exit' = "ok"
  /\ UNCHANGED << files, state, alerts, ti, target, ui, result, runs, history >>
  /\ UNCHANGED << stateOps, textvars >>

\* if alerts: open(ALERT_FILE, "w")
AlertOpen ==
  /\ pc = "compose"
  /\ alerts # <<>>
  /\ alertFile' = AlertFileWith(<<>>)
  /\ pc' = "write"
  /\ UNCHANGED << stateFile, state, alerts, ti, target, ui, result, runs, exit, history >>
  /\ UNCHANGED << stateOps, textvars >>

\* f.write("\n".join(lines)), close, print
AlertWrite ==
  /\ pc = "write"
  /\ alertFile' = AlertFileWith(alert_document(alerts))
  /\ everAlerted' = everAlerted \cup {alerts[i][1].id : i \in 1..Len(alerts)}
  /\ pc' = "idle"
  /\ exit' = "ok"
  /\ UNCHANGED << stateFile, state, alerts, ti, target, ui, result, runs,
                  killedAt, loadedFrom, loaded, savedOver, fetched, trace, recorded >>
  /\ UNCHANGED << stateOps, textvars >>

\* the scheduler kills the process, at any position
Kill ==
  /\ pc # "idle"
  /\ killedAt' = pc
  /\ pc' = "idle"
  /\ exit' = "killed"
  /\ UNCHANGED << files, state, alerts, ti, target, ui, result, runs,
                  loadedFrom, loaded, savedOver, fetched, trace, recorded, everAlerted >>
  /\ UNCHANGED << stateOps, textvars >>

Next ==
  \/ MainStart
  \/ MainKeyError
  \/ MainSkip
  \/ MainAnalyze
  \/ AnalyzeUrl
  \/ AnalyzeNone
  \/ MainRecord
  \/ SaveOpen
  \/ SaveDump
  \/ MainNoAlerts
  \/ AlertOpen
  \/ AlertWrite
  \/ Kill

Spec == Init /\ [][Next]_vars

\* --------------------------------------------- analyze_target by itself
\* the targets analyze_target is applied to: the Mendoza entry with every
\* prefix of its URL list, with and without require_year, and with
\* must_have_link_patterns absent, empty and as configured
TargetInputs ==
  { Target(MendozaId, MendozaName, SubSeq(MendozaUrls, 1, n), MendozaPositive,
           MendozaNegative, ry, pats) :
      n \in 0..Len(MendozaUrls), ry \in BOOLEAN,
      pats \in {None, Some(<<>>), Some(MendozaLinkPatterns)} }

InitAnalyze ==
  /\ stateFile = AbsentFile
  /\ alertFile = NoAlertFile
  /\ pc = "analyze"
  /\ state = initial_state
  /\ alerts = <<>>
  /\ ti = 1
  /\ target \in TargetInputs
  /\ ui = 1
  /\ result = NoResult
  /\ runs = 1
  /\ exit = "none"
  /\ killedAt = "none"
  /\ loadedFrom = AbsentFile
  /\ loaded = initial_state
  /\ savedOver = AbsentFile
  /\ fetched = <<>>
  /\ trace = <<>>
  /\ recorded = {}
  /\ everAlerted = {}
  /\ stateOps = <<>>
  /\ text = <<>>
  /\ open_signals = None

NextAnalyze ==
  \/ AnalyzeUrl
  \/ AnalyzeNone

SpecAnalyze == InitAnalyze /\ [][NextAnalyze]_vars

\* ------------------------------------- text_has_open_signals by itself
\* longest text the function is applied to, in code points
MaxTextLen == 26

\* the pieces the texts are made of: the year and another year, positive and
\* negative keywords in lower and mixed case, and text that is neither
\* "Inscripciones"
FragPositive == <<73, 110, 115, 99, 114, 105, 112, 99, 105, 111, 110, 101, 115>>

\* "tickets"
FragTickets == <<116, 105, 99, 107, 101, 116, 115>>

\* "cerradas"
FragNegative == <<99, 101, 114, 114, 97, 100, 97, 115>>

\* "Sold Out"
FragSoldOut == <<83, 111, 108, 100, 32, 79, 117, 116>>

\* " maraton "
FragFiller == <<32, 109, 97, 114, 97, 116, 111, 110, 32>>

Fragments ==
  { YEAR, PrevYear, FragPositive, FragTickets, FragNegative, FragSoldOut, FragFiller }

\* the targets of the registry, with require_year as configured and switched off
TextTargets ==
  { [TARGETS[i] EXCEPT !.require_year = ry] : i \in 1..Len(TARGETS), ry \in BOOLEAN }

InitText ==
  /\ stateFile = AbsentFile
  /\ alertFile = NoAlertFile
  /\ pc = "text"
  /\ state = initial_state
  /\ alerts = <<>>
  /\ ti = 1
  /\ target \in TextTargets
  /\ ui = 1
  /\ result = NoResult
  /\ runs = 1
  /\ exit = "none"
  /\ killedAt = "none"
  /\ loadedFrom = AbsentFile
  /\ loaded = initial_state
  /\ savedOver = AbsentFile
  /\ fetched = <<>>
  /\ trace = <<>>
  /\ recorded = {}
  /\ everAlerted = {}
  /\ stateOps = <<>>
  /\ text = <<>>
  /\ open_signals = None

\* text_has_open_signals(text, target, YEAR) on the text grown by f at its end
TextAppend ==
  /\ pc = "text"
  /\ \E f \in Fragments :
       /\ Len(text) + Len(f) <= MaxTextLen
       /\ text' = text \o f
       /\ open_signals' = Some(text_has_open_signals(text', target, YEAR))
  /\ UNCHANGED << files, pc, state, alerts, ti, target, ui, result, runs, exit,
                  history, stateOps >>

\* text_has_open_signals(text, target, YEAR) on the text grown by f at its start
TextPrepend ==
  /\ pc = "text"
  /\ \E f \in Fragments :
       /\ Len(text) + Len(f) <= MaxTextLen
       /\ text' = f \o text
       /\ open_signals' = Some(text_has_open_signals(text', target, YEAR))
  /\ UNCHANGED << files, pc, state, alerts, ti, target, ui, result, runs, exit,
                  history, stateOps >>

NextText ==
  \/ TextAppend
  \/ TextPrepend

SpecText == InitText /\ [][NextText]_vars

\* ---------------------------------------------------------------- claims
\* number of occurrences of x in the list s
Count(x, s) == Cardinality({i \in 1..Len(s) : s[i] = x})

\* the years recorded for id in a state file, <<>> when there are none
persisted_years(file, id) ==
  IF file.kind = "json" /\ id \in DOMAIN json_load(file.doc)
  THEN json_load(file.doc)[id].notified_years
  ELSE <<>>

\* the ids of the targets of a batch
batch_ids(as) == {as[k][1].id : k \in 1..Len(as)}

\* C1: once YEAR is in a target's notified_years in the persisted state, no
\* later invocation of main() adds that target to the alert batch.  While
\* the loop of an invocation runs, `recorded` holds the targets recorded by
\* earlier invocations.
C1_NeverReAlert ==
  pc \in {"for", "analyze", "record"} => batch_ids(alerts) \cap recorded = {}

\* C2: no year occurs twice in any notified_years list, in memory or on
\* disk, and an invocation that loaded a list holding YEAR leaves that list
\* as it was.
C2_NoDuplicateYear ==
  /\ \A id \in DOMAIN state : \A y \in {YEAR, PrevYear} :
       Count(y, state[id].notified_years) <= 1
  /\ \A i \in 1..Len(stateFile.doc) : \A y \in {YEAR, PrevYear} :
       Count(y, stateFile.doc[i].value.notified_years) <= 1
  /\ \A id \in DOMAIN loaded :
       YEAR \in Range(loaded[id].notified_years) => state[id] = loaded[id]

\* C2 witness: a second invocation that started with YEAR recorded for a
\* target has run to its end.
C2_Witness ==
  /\ pc = "idle" /\ exit = "ok" /\ runs >= 2
  /\ \E id \in DOMAIN loaded : YEAR \in Range(loaded[id].notified_years)
  /\ stateFile = save_state(state)

\* C3: when no invocation is under way, a target recorded with YEAR in the
\* state file has been named in an alert document written by some
\* invocation (at-least-once alerting, also when invocations are killed).
C3_AtLeastOnce ==
  pc = "idle" =>
    \A id \in TargetIds :
      YEAR \in Range(persisted_years(stateFile, id)) => id \in everAlerted

\* C4: after an invocation that ran to its end without a new detection the
\* alert file is absent.
C4_NoStaleAlert ==
  (pc = "idle" /\ exit = "ok" /\ alerts = <<>>) => ~alertFile.exists

\* C5: an invocation that loaded a JSON object lacking a configured target
\* does not fail on the missing entry.
C5_MissingTargetTolerated ==
  (runs > 0 /\ loadedFrom.kind = "json" /\ ~(TargetIds \subseteq DOMAIN loaded))
    => exit # "KeyError"

\* C6: an invocation in which the processing of a target raised has still
\* gone through every target and has persisted the state.
C6_FailuresIsolated ==
  (pc = "idle" /\ exit \in {"KeyError", "Exception"}) =>
    /\ ti = Len(TARGETS) + 1
    /\ stateFile = save_state(state)

\* C7: after a kill inside save_state the state file holds the complete
\* prior document or the complete new one.
C7_SaveAtomic ==
  (pc = "idle" /\ exit = "killed" /\ killedAt = "dump") =>
    stateFile \in {savedOver, save_state(state)}

\* C8: load_state on an absent or unparsable state file does not raise and
\* returns every target of TARGETS with an empty notified_years list.
C8_LoadFallback ==
  (runs > 0 /\ loadedFrom.kind # "json") =>
    /\ exit # "LoadError"
    /\ DOMAIN loaded = TargetIds
    /\ \A id \in TargetIds : loaded[id].notified_years = <<>>

\* C8 witness: an invocation has loaded a state file cut short by a kill.
C8_Witness ==
  /\ pc = "for" /\ ti = 1
  /\ loadedFrom.kind = "unparsable"
  /\ state = initial_state

\* C9: a target that has YEAR in its notified_years when the invocation
\* loads the state is not fetched and gets no entry in the alert batch.
C9_NotifiedNotFetched ==
  runs > 0 =>
    \A id \in DOMAIN loaded :
      YEAR \in Range(loaded[id].notified_years) =>
        /\ \A k \in 1..Len(fetched) : fetched[k][1] # id
        /\ id \notin batch_ids(alerts)

\* C9 witness: an invocation that loaded YEAR for the first target has
\* passed it and fetched for the second.
C9_Witness ==
  /\ pc = "compose"
  /\ YEAR \in Range(loaded[MendozaId].notified_years)
  /\ \E k \in 1..Len(fetched) : fetched[k][1] = PatagoniaId

\* a response qualifies for a target: it has content, its text passes
\* text_has_open_signals, and a non-empty must_have_link_patterns has a
\* match among the hrefs
Qualifies(t, r) ==
  /\ r.kind = "response" /\ r.status_code = 200 /\ r.text # <<>>
  /\ text_has_open_signals(get_text(r.text), t, YEAR)
  /\ (t.must_have_link_patterns # None /\ t.must_have_link_patterns[1] # <<>>)
       => links_have_patterns(r.text, t.must_have_link_patterns[1])

\* C10: when analyze_target returns, it has fetched the URLs in list order,
\* every URL before the last fetched one did not qualify, and it returns
\* the last fetched URL if that qualifies, and None after the whole list
\* (the empty list included) if none qualifies.
C10_FirstQualifyingUrl ==
  pc = "record" =>
    LET n == Len(trace) IN
    /\ n <= Len(target.urls)
    /\ \A j \in 1..n : trace[j].url = target.urls[j]
    /\ \A j \in 1..(n - 1) : ~Qualifies(target, trace[j].response)
    /\ IF result = NoResult
       THEN /\ n = Len(target.urls)
            /\ n > 0 => ~Qualifies(target, trace[n].response)
       ELSE /\ n > 0
            /\ result.url = target.urls[n]
            /\ Qualifies(target, trace[n].response)

\* C10 witness: a target without link patterns, whose first URL had no
\* content and whose second URL is returned although no href matches.
C10_Witness ==
  /\ pc = "record"
  /\ target.must_have_link_patterns = None
  /\ Len(trace) = 2 /\ Len(target.urls) = 3
  /\ trace[1].response = RequestException
  /\ trace[2].response = Response(200, PageNoLink)
  /\ result # NoResult

\* some keyword of the list is a substring of the text as it stands
occurs_raw(keywords, t) == \E i \in 1..Len(keywords) : Contains(keywords[i], t)

\* k occurs in t up to the case of t
occurs_ci(k, t) ==
  \E i \in 1..(Len(t) - Len(k) + 1) :
    \A j \in 1..Len(k) : lower_char(t[i + j - 1]) = k[j]

some_occurs_ci(keywords, t) == \E i \in 1..Len(keywords) : occurs_ci(keywords[i], t)

\* C11: text_has_open_signals is false for every text that contains a
\* negative keyword of the target, and growing a text for which it was true
\* by a text that contains a negative keyword makes it false.
C11_NegativeVeto ==
  /\ [](open_signals # None /\ occurs_raw(target.negative_keywords, text)
          => open_signals = Some(FALSE))
  /\ [][(open_signals = Some(TRUE) /\ text' # text
         /\ occurs_raw(target.negative_keywords, text'))
          => open_signals' = Some(FALSE)]_vars

\* C11 witness: year and positive keyword followed by a negative keyword.
C11_Witness ==
  /\ pc = "text"
  /\ text = FragPositive \o YEAR \o FragNegative
  /\ open_signals = Some(FALSE)

\* C12: with require_year and the year absent the result is false; in all,
\* the result is true iff (require_year is off or the year occurs) and a
\* positive keyword occurs and no negative keyword occurs, keywords taken
\* up to the case of the text.
C12_OpenSignalsRule ==
  open_signals # None =>
    /\ (target.require_year /\ ~occurs_ci(YEAR, text)) => open_signals = Some(FALSE)
    /\ open_signals = Some( /\ (~target.require_year \/ occurs_ci(YEAR, text))
                            /\ some_occurs_ci(target.positive_keywords, text)
                            /\ ~some_occurs_ci(target.negative_keywords, text) )

\* C12 witness: require_year, a positive keyword, another year only.
C12_Witness ==
  /\ pc = "text"
  /\ target.require_year
  /\ text = FragPositive \o PrevYear
  /\ open_signals = Some(FALSE)

\* the request gave no content: a network error or timeout, a status
\* other than 200, or an empty body
no_content(r) ==
  \/ r.kind = "RequestException"
  \/ r.kind = "response" /\ (r.status_code # 200 \/ r.text = <<>>)

\* C13: fetch returns the body iff the status is 200 and the body is not
\* empty; a network error, a status other than 200 or an empty body gives
\* None without an exception, and analyze_target goes on to the next URL.
C13_FetchAbsorbs ==
  \A j \in 1..Len(trace) :
    LET r == trace[j].response IN
    /\ no_content(r) =>
         /\ fetch(r) = None
         /\ ~fetch_raises(r)
         /\ ui > j
         /\ j = Len(trace) => (exit # "Exception" /\ result = NoResult)
    /\ (r.kind = "response" /\ ~no_content(r)) => fetch(r) = Some(r.text)

\* C13 witness: a network error, a 404 with a body and an empty 200, each
\* followed by the next URL, and None at the end of the list.
C13_Witness ==
  /\ pc = "record"
  /\ Len(trace) = 3
  /\ trace[1].response = RequestException
  /\ trace[2].response = Response(404, PageOpen)
  /\ trace[3].response = Response(200, <<>>)
  /\ result = NoResult

\* the targets whose entry differs from the one load_state returned
gained(st) == {id \in DOMAIN st : st[id] # loaded[id]}

\* C14: in an invocation the targets of the alert batch are exactly the
\* targets whose notified_years changed, each once, the change being YEAR
\* appended; and a target that was not notified at the start is in the
\* batch iff analyze_target returned a result for it.
C14_BatchMatchesState ==
  /\ batch_ids(alerts) = gained(state)
  /\ Cardinality(batch_ids(alerts)) = Len(alerts)
  /\ \A id \in gained(state) :
       state[id].notified_years = Append(loaded[id].notified_years, YEAR)
  /\ (pc = "for" /\ ti > 1 /\ YEAR \notin Range(loaded[target.id].notified_years))
       => (result # NoResult <=> target.id \in batch_ids(alerts))

\* C14 witness: the first target was analyzed without a result and left as
\* it was, the second was detected and recorded.
C14_Witness ==
  /\ pc = "for" /\ ti = 3
  /\ batch_ids(alerts) = {PatagoniaId}
  /\ state[MendozaId] = loaded[MendozaId]
  /\ YEAR \notin Range(loaded[MendozaId].notified_years)
  /\ \E k \in 1..Len(fetched) : fetched[k][1] = MendozaId

\* the lines of a text, split at LF
RECURSIVE split_lines(_)
split_lines(t) ==
  LET nl == find_first(t, {10}, 1) IN
  IF nl > Len(t) THEN <<t>>
  ELSE <<SubSeq(t, 1, nl - 1)>> \o split_lines(SubSeq(t, nl + 1, Len(t)))

starts_with(prefix, line) ==
  Len(line) >= Len(prefix) /\ SubSeq(line, 1, Len(prefix)) = prefix

\* the host of the pages of a target, as its URLs of the registry spell it
\* "maratondemendoza.com"
MendozaHost ==
  <<109, 97, 114, 97, 116, 111, 110, 100, 101, 109, 101, 110, 100, 111, 122, 97, 46, 99, 111, 109>>

\* "www.patagonianinternationalmarathon.com"
PatagoniaHost ==
  <<119, 119, 119, 46, 112, 97, 116, 97, 103, 111, 110, 105, 97, 110, 105, 110, 116, 101, 114, 110, 97, 116, 105, 111, 110, 97, 108, 109, 97, 114, 97, 116, 104, 111, 110, 46, 99, 111, 109>>

host_of(t) == IF t.id = MendozaId THEN MendozaHost ELSE PatagoniaHost

\* the section headings ("## ...") and the page lines of an alert text
section_heads(t) ==
  LET is_head(l) == starts_with(LitSection, l) IN SelectSeq(split_lines(t), is_head)

page_lines(t) ==
  LET is_page(l) == starts_with(LitPage, l) IN SelectSeq(split_lines(t), is_page)

\* C15: the alert file changes only in an invocation whose batch is not
\* empty, and an invocation that ran to its end with a batch has left a
\* document with one section per batch entry, in batch order, each with the
\* name of the target and the host of its detection URL.
C15_AlertDocument ==
  /\ [][alertFile' # alertFile => (alerts # <<>> /\ pc \in {"compose", "write"})]_vars
  /\ []((pc = "idle" /\ exit = "ok" /\ alerts # <<>>) =>
          /\ alertFile.exists
          /\ Len(section_heads(alertFile.text)) = Len(alerts)
          /\ Len(page_lines(alertFile.text)) = Len(alerts)
          /\ \A k \in 1..Len(alerts) :
               /\ starts_with(LitSection \o alerts[k][1].name, section_heads(alertFile.text)[k])
               /\ page_lines(alertFile.text)[k]
                    = LitPage \o host_of(alerts[k][1]) \o LitTick)

\* C15 witness: an invocation with a batch of two has written its document.
C15_Witness ==
  /\ pc = "idle" /\ exit = "ok"
  /\ Len(alerts) = 2
  /\ alertFile = AlertFileWith(alert_document(alerts))
  /\ Len(section_heads(alertFile.text)) = 2

\* C16: an invocation calls load_state once, before any target is
\* processed, and save_state at most once, after the loop over all targets;
\* until save_state is called the state file is the one that was loaded, so
\* an invocation killed before save_state leaves it unchanged; an invocation
\* that runs to its end has called both, once each.
C16_LoadOnceSaveOnce ==
  runs > 0 =>
    /\ stateOps \in {<<"load">>, <<"load", "save">>}
    /\ stateOps = <<"load">> => stateFile = loadedFrom
    /\ stateOps = <<"load", "save">> => ti = Len(TARGETS) + 1
    /\ pc \in {"for", "analyze", "record"} => stateOps = <<"load">>
    /\ (pc = "idle" /\ exit = "ok") => stateOps = <<"load", "save">>

\* C16 witness: an invocation killed with a detection in memory, before
\* save_state, has left the state file as it found it.
C16_Witness ==
  /\ pc = "idle" /\ exit = "killed" /\ killedAt = "for"
  /\ alerts # <<>>
  /\ stateFile = loadedFrom
  /\ stateFile.kind = "json"

\* a is an initial part of b
is_prefix(a, b) == Len(a) <= Len(b) /\ SubSeq(b, 1, Len(a)) = a

\* C17: when an invocation is over, each persisted notified_years list
\* extends the list the invocation found, by nothing or by YEAR.
C17_MonotoneState ==
  (pc = "idle" /\ runs > 0) =>
    \A id \in TargetIds \cup {OtherId} :
      LET before == persisted_years(loadedFrom, id)
          after  == persisted_years(stateFile, id)
      IN  /\ is_prefix(before, after)
          /\ after \in {before, Append(before, YEAR)}

\* ------------------------------------------------ runs that keep running
\* a step of the process itself: every action but the start of an
\* invocation and the kill
Step ==
  \/ MainKeyError
  \/ MainSkip
  \/ MainAnalyze
  \/ AnalyzeUrl
  \/ AnalyzeNone
  \/ MainRecord
  \/ SaveOpen
  \/ SaveDump
  \/ MainNoAlerts
  \/ AlertOpen
  \/ AlertWrite

\* number of invocations of main() explored for termination
MaxFairRuns == 3

\* the scheduler starts an invocation
RunStart ==
  /\ runs < MaxFairRuns
  /\ MainStart

NextRun ==
  \/ RunStart
  \/ Step

\* Invocations that are not killed.  The process is sequential and every
\* call it makes returns (requests.get within TIMEOUT), so a process that
\* can take a step takes one.
SpecFair == Init /\ [][NextRun]_vars /\ WF_vars(Step)

\* C18: every invocation ends, and in an invocation no candidate URL is
\* fetched twice, so that the fetches are at most the candidate URLs of the
\* registry.
C18_TerminatesBoundedFetches ==
  /\ [](/\ \A j, k \in 1..Len(fetched) : fetched[j] = fetched[k] => j = k
        /\ \A j \in 1..Len(fetched) :
             \E i \in 1..Len(TARGETS) :
               fetched[j][1] = TARGETS[i].id /\ fetched[j][2] \in 1..Len(TARGETS[i].urls)
        /\ Len(fetched) <= Len(TARGETS[1].urls) + Len(TARGETS[2].urls))
  /\ (pc # "idle" ~> pc = "idle")

\* C18 witness: an invocation in which every request failed has fetched
\* every candidate URL once and has run to its end.
C18_Witness ==
  /\ pc = "idle" /\ exit = "ok"
  /\ Len(fetched) = Len(TARGETS[1].urls) + Len(TARGETS[2].urls)
  /\ alerts = <<>>

\* the targets fetched in this invocation
fetched_ids == {fetched[k][1] : k \in 1..Len(fetched)}

\* C19: in an invocation that was not killed, whether a target is fetched
\* is decided by its own notified_years entry alone: it is fetched iff YEAR
\* is not in the list that was loaded for it, whatever happened to the
\* targets before it; and a target is in the batch only if it was fetched.
C19_TargetsIndependent ==
  (pc = "idle" /\ runs > 0 /\ exit # "killed") =>
    \A i \in 1..Len(TARGETS) :
      LET id == TARGETS[i].id IN
      id \in DOMAIN loaded =>
        /\ id \in fetched_ids <=> YEAR \notin Range(loaded[id].notified_years)
        /\ id \in batch_ids(alerts) => id \in fetched_ids

\* the same for the targets the loop of the invocation has got past: what
\* the claim comes to once no exception ends the loop early
C19_IndependentOncePassed ==
  runs > 0 =>
    \A i \in 1..Len(TARGETS) :
      LET id == TARGETS[i].id IN
      (i < ti /\ id \in DOMAIN loaded) =>
        /\ id \in fetched_ids <=> YEAR \notin Range(loaded[id].notified_years)
        /\ id \in batch_ids(alerts) => id \in fetched_ids

====
